---- MODULE Spec2Model ----
(***************************************************************************)
(* A model of two parts of KES:                                            *)
(*   - package mem, the in-memory key store (Store and its iterator),      *)
(*     run by concurrent goroutines that take the Store's sync.RWMutex;    *)
(*   - internal/http/policy-api.go, the six policy routes.                 *)
(* Spec is the specification of the store, SpecPolicy (further down) the   *)
(* one of the policy routes.                                               *)
(***************************************************************************)
EXTENDS Integers, Sequences, FiniteSets, TLC

\* ------------------------------------------------------------- bounds
NNames == 2

Threads == {1, 2}
NameStr == <<"a", "b", "c", "d">>
Names == {NameStr[i] : i \in 1..NNames}
Keys == {"k1", "k2"}

\* The policy routes: the requests being handled, the policy names, the
\* identities, the times time.Now() may give.
NPolicies == 2

Reqs == {1, 2}
PolicyStr == <<"p1", "p2", "p3", "p4">>
PolicyNames == {PolicyStr[i] : i \in 1..NPolicies}
Times == {1, 2}

\* ------------------------------------------------------------- values
NoThread == 0
ZeroKey == ""
ErrNil == "nil"
ErrKeyExists == "ErrKeyExists"
ErrKeyNotFound == "ErrKeyNotFound"
ErrPanic == "panic: assignment to entry in nil map"
StoreAvailable == "StoreAvailable"

EmptyMap == [n \in {} |-> ZeroKey]

\* The zero value of Store: an unlocked RWMutex and a nil map.
ZeroStore == [isNil |-> TRUE, m |-> EmptyMap]
ZeroLock == [w |-> NoThread, r |-> {}]
ZeroIterator == [values |-> <<>>, last |-> ""]

Range(s) == {s[i] : i \in DOMAIN s}

\* The orders in which Go's range over a map may visit the names in S.
Perms(S) == {s \in [1..Cardinality(S) -> S] : Range(s) = S}

VARIABLES
  lock,     \* Store.lock: the writer holding it (or NoThread) and the readers
  store,    \* Store.store: nil, or a map from names to keys
  pc,       \* pc[t]: where goroutine t is in its current Store call
  op,       \* op[t]: the call goroutine t makes: method, name, key
  ret,      \* ret[t]: what the call returns
  iter,     \* iter[t]: the iterator t's last List returned
  nextRet,  \* nextRet[t]: what the last Next on iter[t] returned
  \* what an observer of the goroutines records
  atLock,   \* atLock[t]: the store as it was when t's call acquired the lock
  yield,    \* yield[t]: the names iter[t] has yielded so far, in order
  lin       \* the linearizations the calls and returns seen so far allow

storeVars == <<lock, store, pc, op, ret, iter, nextRet>>

VARIABLES
  policies,    \* the enclave's policy table: policy name -> policy
  identities,  \* the enclave's identity index: identity -> policy name
  hpc,         \* hpc[r]: where the handling of request r is
  req,         \* req[r]: the request, as far as it has been read
  resp,        \* resp[r]: what has been written to the ResponseWriter
  listing,     \* listing[r]: listPolicy's iterator and hasWritten
  trace        \* trace[r]: the calls made for request r, in order

policyVars == <<policies, identities, hpc, req, resp, listing, trace>>

obsVars == <<atLock, yield, lin>>

\* ------------------------------------------------------- Go's map
MapHas(s, name) == name \in DOMAIN s.m

MapGet(s, name) == IF name \in DOMAIN s.m THEN s.m[name] ELSE ZeroKey

MapAssign(s, name, k) ==
  [isNil |-> FALSE,
   m |-> [n \in DOMAIN s.m \cup {name} |-> IF n = name THEN k ELSE s.m[n]]]

MapDelete(s, name) ==
  [isNil |-> s.isNil, m |-> [n \in DOMAIN s.m \ {name} |-> s.m[n]]]

\* ------------------------------------------------------- sync.RWMutex
CanLock(t) == lock.w = NoThread /\ lock.r = {}

CanRLock(t) == lock.w = NoThread

Unlocked(t) == [w |-> IF lock.w = t THEN NoThread ELSE lock.w, r |-> lock.r \ {t}]

\* ------------------------------------------------- calls and results
NoOp == [f |-> "none", name |-> "", k |-> ZeroKey]

\* The calls a goroutine can make on the Store.
Ops ==
  {[f |-> "Create", name |-> n, k |-> k] : n \in Names, k \in Keys}
    \cup {[f |-> g, name |-> n, k |-> ZeroKey] : g \in {"Get", "Delete"}, n \in Names}
    \cup {[f |-> g, name |-> "", k |-> ZeroKey] : g \in {"List", "Status"}}

ZeroRet == [err |-> "", val |-> ZeroKey, lat |-> 0]

Returns(e, v) == [err |-> e, val |-> v, lat |-> 0]

\* ------------------------------------------------- the iterator
\* Next without i.values = i.values[1:]
NextKeepsValues(i) ==
  IF Len(i.values) > 0
  THEN [it |-> [values |-> i.values, last |-> Head(i.values)], ok |-> TRUE]
  ELSE [it |-> i, ok |-> FALSE]

Next(i) ==
  IF Len(i.values) > 0
  THEN [it |-> [values |-> Tail(i.values), last |-> Head(i.values)], ok |-> TRUE]
  ELSE [it |-> i, ok |-> FALSE]

Name(i) == i.last

Err(i) == ErrNil

\* ------------------------------------------------- the observer of linearizability
\* A configuration is an abstract store together with, for each goroutine,
\* whether its call is idle, pending, or has taken effect with some result.
\* lin holds every configuration that the calls and returns seen so far
\* allow; the history is linearizable exactly when lin is not empty.
IdleRes == [ph |-> "idle", err |-> "", val |-> "", names |-> {}]

PendingRes == [ph |-> "pending", err |-> "", val |-> "", names |-> {}]

\* What call o does to the abstract store st when it runs alone.
SeqApply(st, o) ==
  CASE o.f = "Create" ->
         IF o.name \in DOMAIN st
         THEN [st |-> st, err |-> ErrKeyExists, val |-> ZeroKey, names |-> {}]
         ELSE [st |-> [n \in DOMAIN st \cup {o.name} |-> IF n = o.name THEN o.k ELSE st[n]],
               err |-> ErrNil, val |-> ZeroKey, names |-> {}]
    [] o.f = "Get" ->
         IF o.name \in DOMAIN st
         THEN [st |-> st, err |-> ErrNil, val |-> st[o.name], names |-> {}]
         ELSE [st |-> st, err |-> ErrKeyNotFound, val |-> ZeroKey, names |-> {}]
    [] o.f = "Delete" ->
         [st |-> [n \in DOMAIN st \ {o.name} |-> st[n]],
          err |-> ErrNil, val |-> ZeroKey, names |-> {}]
    [] o.f = "List" ->
         [st |-> st, err |-> ErrNil, val |-> ZeroKey, names |-> DOMAIN st]
    [] OTHER ->
         [st |-> st, err |-> ErrNil, val |-> StoreAvailable, names |-> {}]

Linearize(c, t, o) ==
  LET a == SeqApply(c.st, o[t])
  IN [st |-> a.st,
      res |-> [c.res EXCEPT ![t] =
                 [ph |-> "lin", err |-> a.err, val |-> a.val, names |-> a.names]]]

LinStep(S, o) ==
  S \cup UNION {{Linearize(c, t, o) : t \in {u \in Threads : c.res[u].ph = "pending"}} : c \in S}

RECURSIVE LinClosure(_, _, _)
LinClosure(S, o, n) == IF n = 0 THEN S ELSE LinClosure(LinStep(S, o), o, n - 1)

\* goroutine t calls o[t]
LinCall(t, o) ==
  LinClosure({[c EXCEPT !.res[t] = PendingRes] : c \in lin}, o, Cardinality(Threads))

\* goroutine t's call returns r, yielding the names ns if it is a List
LinReturn(t, r, ns) ==
  {[c EXCEPT !.res[t] = IdleRes] :
     c \in {d \in lin : d.res[t] = [ph |-> "lin", err |-> r.err, val |-> r.val, names |-> ns]}}

\* ------------------------------------------------- initial state
StoreInit ==
  /\ lock = ZeroLock
  /\ store = ZeroStore
  /\ pc = [t \in Threads |-> "idle"]
  /\ op = [t \in Threads |-> NoOp]
  /\ ret = [t \in Threads |-> ZeroRet]
  /\ iter = [t \in Threads |-> ZeroIterator]
  /\ atLock = [t \in Threads |-> ZeroStore]
  /\ yield = [t \in Threads |-> <<>>]
  /\ nextRet = [t \in Threads |-> "none"]
  /\ lin = {[st |-> EmptyMap, res |-> [t \in Threads |-> IdleRes]]}

\* ------------------------------------------------- the Store's methods
\* A goroutine that is not inside a call makes the call o.
Call(t, o) ==
  /\ pc[t] \in {"idle", "done"}
  /\ op' = [op EXCEPT ![t] = o]
  /\ pc' = [pc EXCEPT ![t] = IF o.f = "Status" THEN "status" ELSE "lock"]
  /\ ret' = [ret EXCEPT ![t] = ZeroRet]
  /\ iter' = [iter EXCEPT ![t] = ZeroIterator]
  /\ nextRet' = [nextRet EXCEPT ![t] = "none"]
  /\ UNCHANGED <<lock, store>>

\* The deferred Unlock or RUnlock of a method, and its return.
Return(t) ==
  /\ pc[t] = "unlock"
  /\ lock' = Unlocked(t)
  /\ pc' = [pc EXCEPT ![t] = "done"]
  /\ UNCHANGED <<store, op, ret, iter, nextRet>>

\* Status that waits for the read lock
StatusReturnLocked(t) ==
  /\ pc[t] = "status"
  /\ CanRLock(t)
  /\ ret' = [ret EXCEPT ![t] = [err |-> ErrNil, val |-> StoreAvailable, lat |-> 0]]
  /\ pc' = [pc EXCEPT ![t] = "done"]
  /\ UNCHANGED <<lock, store, op, iter, nextRet>>

StatusReturn(t) ==
  /\ pc[t] = "status"
  /\ ret' = [ret EXCEPT ![t] = [err |-> ErrNil, val |-> StoreAvailable, lat |-> 0]]
  /\ pc' = [pc EXCEPT ![t] = "done"]
  /\ UNCHANGED <<lock, store, op, iter, nextRet>>

\* Create with s.lock.RLock() in place of s.lock.Lock()
CreateLockShared(t) ==
  /\ pc[t] = "lock" /\ op[t].f = "Create"
  /\ CanRLock(t)
  /\ lock' = [lock EXCEPT !.r = @ \cup {t}]
  /\ pc' = [pc EXCEPT ![t] = "check"]
  /\ UNCHANGED <<store, op, ret, iter, nextRet>>

CreateLock(t) ==
  /\ pc[t] = "lock" /\ op[t].f = "Create"
  /\ CanLock(t)
  /\ lock' = [lock EXCEPT !.w = t]
  /\ pc' = [pc EXCEPT ![t] = "check"]
  /\ UNCHANGED <<store, op, ret, iter, nextRet>>

\* Create without its test for an existing entry
CreateCheckOverwrite(t) ==
  /\ pc[t] = "check"
  /\ store' = IF store.isNil THEN [isNil |-> FALSE, m |-> EmptyMap] ELSE store
  /\ pc' = [pc EXCEPT ![t] = "assign"]
  /\ UNCHANGED <<lock, op, ret, iter, nextRet>>

\* Create with its test for an existing entry inverted
CreateCheckInverted(t) ==
  /\ pc[t] = "check"
  /\ store' = IF store.isNil THEN [isNil |-> FALSE, m |-> EmptyMap] ELSE store
  /\ IF ~MapHas(store', op[t].name)
     THEN /\ ret' = [ret EXCEPT ![t] = Returns(ErrKeyExists, ZeroKey)]
          /\ pc' = [pc EXCEPT ![t] = "unlock"]
     ELSE /\ pc' = [pc EXCEPT ![t] = "assign"]
          /\ UNCHANGED ret
  /\ UNCHANGED <<lock, op, iter, nextRet>>

\* Create without the initialisation of a nil map
CreateCheckNoInit(t) ==
  /\ pc[t] = "check"
  /\ IF MapHas(store, op[t].name)
     THEN /\ ret' = [ret EXCEPT ![t] = Returns(ErrKeyExists, ZeroKey)]
          /\ pc' = [pc EXCEPT ![t] = "unlock"]
     ELSE /\ pc' = [pc EXCEPT ![t] = "assign"]
          /\ UNCHANGED ret
  /\ UNCHANGED <<lock, store, op, iter, nextRet>>

\* Create returns ErrKeyExists without its deferred Unlock.
CreateCheckNoUnlock(t) ==
  /\ pc[t] = "check"
  /\ store' = IF store.isNil THEN [isNil |-> FALSE, m |-> EmptyMap] ELSE store
  /\ IF MapHas(store', op[t].name)
     THEN /\ ret' = [ret EXCEPT ![t] = Returns(ErrKeyExists, ZeroKey)]
          /\ pc' = [pc EXCEPT ![t] = "done"]
     ELSE /\ pc' = [pc EXCEPT ![t] = "assign"]
          /\ UNCHANGED ret
  /\ UNCHANGED <<lock, op, iter, nextRet>>

\* if s.store == nil { ... }; if _, ok := s.store[name]; ok { return ErrKeyExists }
CreateCheck(t) ==
  /\ pc[t] = "check"
  /\ store' = IF store.isNil THEN [isNil |-> FALSE, m |-> EmptyMap] ELSE store
  /\ IF MapHas(store', op[t].name)
     THEN /\ ret' = [ret EXCEPT ![t] = Returns(ErrKeyExists, ZeroKey)]
          /\ pc' = [pc EXCEPT ![t] = "unlock"]
     ELSE /\ pc' = [pc EXCEPT ![t] = "assign"]
          /\ UNCHANGED ret
  /\ UNCHANGED <<lock, op, iter, nextRet>>

\* s.store[name] = k; return nil.  Assigning to an entry of a nil map panics.
CreateAssign(t) ==
  /\ pc[t] = "assign"
  /\ IF store.isNil
     THEN /\ ret' = [ret EXCEPT ![t] = Returns(ErrPanic, ZeroKey)]
          /\ UNCHANGED store
     ELSE /\ store' = MapAssign(store, op[t].name, op[t].k)
          /\ ret' = [ret EXCEPT ![t] = Returns(ErrNil, ZeroKey)]
  /\ pc' = [pc EXCEPT ![t] = "unlock"]
  /\ UNCHANGED <<lock, op, iter, nextRet>>

DeleteLock(t) ==
  /\ pc[t] = "lock" /\ op[t].f = "Delete"
  /\ CanLock(t)
  /\ lock' = [lock EXCEPT !.w = t]
  /\ pc' = [pc EXCEPT ![t] = "delete"]
  /\ UNCHANGED <<store, op, ret, iter, nextRet>>

\* Delete that reports a missing entry as an error
DeleteEntryStrict(t) ==
  /\ pc[t] = "delete"
  /\ store' = MapDelete(store, op[t].name)
  /\ ret' = [ret EXCEPT ![t] =
               IF MapHas(store, op[t].name)
               THEN Returns(ErrNil, ZeroKey)
               ELSE Returns(ErrKeyNotFound, ZeroKey)]
  /\ pc' = [pc EXCEPT ![t] = "unlock"]
  /\ UNCHANGED <<lock, op, iter, nextRet>>

\* Delete empties the map.
DeleteEntryAll(t) ==
  /\ pc[t] = "delete"
  /\ store' = [store EXCEPT !.m = EmptyMap]
  /\ ret' = [ret EXCEPT ![t] = Returns(ErrNil, ZeroKey)]
  /\ pc' = [pc EXCEPT ![t] = "unlock"]
  /\ UNCHANGED <<lock, op, iter, nextRet>>

\* delete(s.store, name); return nil
DeleteEntry(t) ==
  /\ pc[t] = "delete"
  /\ store' = MapDelete(store, op[t].name)
  /\ ret' = [ret EXCEPT ![t] = Returns(ErrNil, ZeroKey)]
  /\ pc' = [pc EXCEPT ![t] = "unlock"]
  /\ UNCHANGED <<lock, op, iter, nextRet>>

\* Get takes the write lock.
GetRLockExclusive(t) ==
  /\ pc[t] = "lock" /\ op[t].f = "Get"
  /\ CanLock(t)
  /\ lock' = [lock EXCEPT !.w = t]
  /\ pc' = [pc EXCEPT ![t] = "lookup"]
  /\ UNCHANGED <<store, op, ret, iter, nextRet>>

GetRLock(t) ==
  /\ pc[t] = "lock" /\ op[t].f = "Get"
  /\ CanRLock(t)
  /\ lock' = [lock EXCEPT !.r = @ \cup {t}]
  /\ pc' = [pc EXCEPT ![t] = "lookup"]
  /\ UNCHANGED <<store, op, ret, iter, nextRet>>

\* Get without its test of ok
GetLookupUnchecked(t) ==
  /\ pc[t] = "lookup"
  /\ ret' = [ret EXCEPT ![t] = Returns(ErrNil, MapGet(store, op[t].name))]
  /\ pc' = [pc EXCEPT ![t] = "unlock"]
  /\ UNCHANGED <<lock, store, op, iter, nextRet>>

\* k, ok := s.store[name]; if !ok { return key.Key{}, ErrKeyNotFound }; return k, nil
GetLookup(t) ==
  /\ pc[t] = "lookup"
  /\ ret' = [ret EXCEPT ![t] =
               IF MapHas(store, op[t].name)
               THEN Returns(ErrNil, MapGet(store, op[t].name))
               ELSE Returns(ErrKeyNotFound, ZeroKey)]
  /\ pc' = [pc EXCEPT ![t] = "unlock"]
  /\ UNCHANGED <<lock, store, op, iter, nextRet>>

ListRLock(t) ==
  /\ pc[t] = "lock" /\ op[t].f = "List"
  /\ CanRLock(t)
  /\ lock' = [lock EXCEPT !.r = @ \cup {t}]
  /\ pc' = [pc EXCEPT ![t] = "range"]
  /\ UNCHANGED <<store, op, ret, iter, nextRet>>

\* List whose loop drops the first name it visits
ListRangeDropsOne(t) ==
  /\ pc[t] = "range"
  /\ \E names \in Perms(DOMAIN store.m) :
       iter' = [iter EXCEPT ![t] =
                  [values |-> IF names = <<>> THEN names ELSE Tail(names), last |-> ""]]
  /\ ret' = [ret EXCEPT ![t] = Returns(ErrNil, ZeroKey)]
  /\ pc' = [pc EXCEPT ![t] = "unlock"]
  /\ UNCHANGED <<lock, store, op, nextRet>>

\* for name := range s.store { names = append(names, name) }; return &iterator{...}
ListRange(t) ==
  /\ pc[t] = "range"
  /\ \E names \in Perms(DOMAIN store.m) :
       iter' = [iter EXCEPT ![t] = [values |-> names, last |-> ""]]
  /\ ret' = [ret EXCEPT ![t] = Returns(ErrNil, ZeroKey)]
  /\ pc' = [pc EXCEPT ![t] = "unlock"]
  /\ UNCHANGED <<lock, store, op, nextRet>>

\* The goroutine that holds the iterator of its last List calls Next on it.
\* Next passes over the names that are no longer in the store.
IterNextLive(t) ==
  /\ pc[t] = "done" /\ op[t].f = "List"
  /\ LET Live(name) == MapHas(store, name)
         n == Next([iter[t] EXCEPT !.values = SelectSeq(@, Live)])
     IN /\ iter' = [iter EXCEPT ![t] = n.it]
        /\ nextRet' = [nextRet EXCEPT ![t] = IF n.ok THEN "true" ELSE "false"]
  /\ UNCHANGED <<lock, store, pc, op, ret>>

IterNext(t) ==
  /\ pc[t] = "done" /\ op[t].f = "List"
  /\ LET n == Next(iter[t])
     IN /\ iter' = [iter EXCEPT ![t] = n.it]
        /\ nextRet' = [nextRet EXCEPT ![t] = IF n.ok THEN "true" ELSE "false"]
  /\ UNCHANGED <<lock, store, pc, op, ret>>

\* ================================================= the policy routes
\* ------------------------------------------------- identities and requests
Admin == "admin"
Alice == "alice"
Proxy == "proxy"
Unknown == "unknown"

ProxyIdentities == {Proxy}

NoCert == "no certificate"
Malformed == "malformed"

\* Who sends a request: the TLS peer and the certificate header it sends.
Callers ==
  {[peer |-> Admin, fwd |-> NoCert],
   [peer |-> Alice, fwd |-> NoCert],
   [peer |-> Alice, fwd |-> Admin],
   [peer |-> Proxy, fwd |-> NoCert],
   [peer |-> Proxy, fwd |-> Alice],
   [peer |-> Proxy, fwd |-> Malformed]}

Routes == {"describe", "assign", "read", "write", "delete", "list"}

Method ==
  [describe |-> "GET", assign |-> "POST", read |-> "GET",
   write |-> "POST", delete |-> "DELETE", list |-> "GET"]

APIPath ==
  [describe |-> "/v1/policy/describe/", assign |-> "/v1/policy/assign/",
   read |-> "/v1/policy/read/", write |-> "/v1/policy/write/",
   delete |-> "/v1/policy/delete/", list |-> "/v1/policy/list/"]

ContentType ==
  [describe |-> "application/json", read |-> "application/json",
   list |-> "application/x-ndjson"]

\* Whether the route is registered with the proxy middleware.
HasProxy ==
  [describe |-> FALSE, assign |-> TRUE, read |-> TRUE,
   write |-> TRUE, delete |-> TRUE, list |-> TRUE]

\* What can follow the route's path: a policy name, the pattern *, a text
\* that is no name and no pattern, and a path that normalizeURL rejects.
Star == "*"
InvalidName == "not a name["
BadPath == "../x"
Targets == PolicyNames \cup {Star, InvalidName, BadPath}

\* ------------------------------------------------- policies
PatAll == "/v1/policy/*/*"
PatWrite == "/v1/policy/write/*"
PatDelete == "/v1/policy/delete/*"
PatAssign == "/v1/policy/assign/*"

\* The glob pattern against the path APIPath[route] followed by one segment.
Match(pattern, route) ==
  CASE pattern = PatAll -> TRUE
    [] pattern = PatWrite -> route = "write"
    [] pattern = PatDelete -> route = "delete"
    [] pattern = PatAssign -> route = "assign"
    [] OTHER -> FALSE

\* The allow and deny lists a write request may carry.
Bodies ==
  {[allow |-> <<PatAll>>, deny |-> <<>>],
   [allow |-> <<PatAll>>, deny |-> <<PatWrite, PatDelete, PatAssign>>]}

\* r.Body before a handler reads it, and a body that is no JSON object
NoBody == [json |-> "unread"]

MalformedJSON == [json |-> "malformed"]

\* The bodies an assign request may carry.
AssignBodies == {[identity |-> i] : i \in {Alice, Proxy, Unknown}}

\* Policy.Verify: no deny pattern matches and at least one allow pattern does.
Verify(policy, route) ==
  /\ \A i \in DOMAIN policy.Deny : ~Match(policy.Deny[i], route)
  /\ \E i \in DOMAIN policy.Allow : Match(policy.Allow[i], route)

\* ------------------------------------------------- errors and responses
ErrOK == [status |-> 0, msg |-> ""]
errMethodNotAllowed == [status |-> 405, msg |-> "method not allowed"]
ErrBadPath == [status |-> 400, msg |-> "invalid URL path"]
ErrBadCert == [status |-> 400, msg |-> "invalid client certificate header"]
ErrNoEnclave == [status |-> 404, msg |-> "enclave does not exist"]
ErrNotAllowed == [status |-> 403, msg |-> "not authorized: insufficient permissions"]
ErrBadName == [status |-> 400, msg |-> "invalid name"]
ErrBadJSON == [status |-> 400, msg |-> "invalid JSON"]
ErrPolicyNotFound == [status |-> 404, msg |-> "policy does not exist"]
ErrAssigned == [status |-> 409, msg |-> "identity is assigned to another policy"]
ErrInternal == [status |-> 500, msg |-> "internal error"]
ErrUnknownIdentity == [status |-> 400, msg |-> "identity is unknown"]
ErrSelfAssign == [status |-> 403, msg |-> "identity cannot assign policy to itself"]

ZeroResp == [status |-> 0, msg |-> "", accept |-> "", ctype |-> "", body |-> <<>>]

\* Error(w, err); the status of a response is the first one written
Error(w, err) ==
  IF w.status = 0 THEN [w EXCEPT !.status = err.status, !.msg = err.msg]
  ELSE [w EXCEPT !.body = Append(@, [message |-> err.msg])]

\* w.WriteHeader(http.StatusOK)
WriteHeaderOK(w) == [w EXCEPT !.status = IF @ = 0 THEN 200 ELSE @]

\* w.Header().Set("Content-Type", ...)
SetContentType(w, ctype) == [w EXCEPT !.ctype = IF w.status = 0 THEN ctype ELSE @]

\* json.NewEncoder(w).Encode(v)
Encode(w, v) == [w EXCEPT !.status = IF @ = 0 THEN 200 ELSE @, !.body = Append(@, v)]

ZeroReq ==
  [route |-> "", peer |-> "", fwd |-> "", identity |-> "", target |-> "",
   body |-> NoBody, now |-> 0]

ZeroListing == [values |-> <<>>, last |-> "", hasWritten |-> FALSE, open |-> FALSE]

Ev(call, err) == [call |-> call, err |-> err.msg]

\* ------------------------------------------------- the enclave
\* auth.Identify(r): the identity of the request's client certificate
Identify(r) == req[r].identity

\* enclave.VerifyRequest(r)
VerifyRequest(r) ==
  LET id == Identify(r)
  IN IF id = Admin THEN ErrOK
     ELSE IF id = Unknown \/ id \notin DOMAIN identities THEN ErrNotAllowed
     ELSE IF identities[id] \notin DOMAIN policies THEN ErrNotAllowed
     ELSE IF Verify(policies[identities[id]], req[r].route) THEN ErrOK
     ELSE ErrNotAllowed

\* enclave.GetPolicy(ctx, name)
GetPolicy(name) == IF name \in DOMAIN policies THEN ErrOK ELSE ErrPolicyNotFound

\* enclave.SetPolicy(ctx, name, policy)
SetPolicy(name, policy) ==
  [n \in DOMAIN policies \cup {name} |-> IF n = name THEN policy ELSE policies[n]]

\* enclave.DeletePolicy(ctx, name)
DeletePolicy(name) == [n \in DOMAIN policies \ {name} |-> policies[n]]

\* enclave.AssignPolicy(ctx, name, identity)
AssignPolicyErr(name, identity) ==
  IF name \notin DOMAIN policies THEN ErrPolicyNotFound
  ELSE IF identity \in DOMAIN identities /\ identities[identity] # name THEN ErrAssigned
  ELSE ErrOK

AssignPolicy(name, identity) ==
  [i \in DOMAIN identities \cup {identity} |-> IF i = identity THEN name ELSE identities[i]]

\* validateName, validatePattern
validateName(name) == IF name \in PolicyNames THEN ErrOK ELSE ErrBadName

validatePattern(pattern) == IF pattern \in PolicyNames \cup {Star} THEN ErrOK ELSE ErrBadName

\* Every name matches every pattern.
PathMatchAll(pattern, name) == TRUE

\* path.Match(pattern, name)
PathMatch(pattern, name) == pattern = Star \/ pattern = name

\* ------------------------------------------------- initial state
PolicyInit ==
  /\ policies = [n \in {} |-> ErrOK]
  /\ identities = [i \in {} |-> ""]
  /\ hpc = [r \in Reqs |-> "idle"]
  /\ req = [r \in Reqs |-> ZeroReq]
  /\ resp = [r \in Reqs |-> ZeroResp]
  /\ listing = [r \in Reqs |-> ZeroListing]
  /\ trace = [r \in Reqs |-> <<>>]

Init == StoreInit /\ PolicyInit

\* ------------------------------------------------- handling a request
\* A step of request r that ends it with the response w after the calls es.
Finish(r, w, es) ==
  /\ resp' = [resp EXCEPT ![r] = w]
  /\ trace' = [trace EXCEPT ![r] = @ \o es]
  /\ hpc' = [hpc EXCEPT ![r] = "done"]

\* A step of request r that goes on at position p after the calls es.
Goto(r, p, es) ==
  /\ trace' = [trace EXCEPT ![r] = @ \o es]
  /\ hpc' = [hpc EXCEPT ![r] = p]

\* A request for one of the routes arrives from one of the callers.
ArriveFor(r, routes, callers) ==
  /\ hpc[r] \in {"idle", "done"}
  /\ \E route \in routes, c \in callers :
       req' = [req EXCEPT ![r] =
                 [route |-> route, peer |-> c.peer, fwd |-> c.fwd,
                  identity |-> c.peer, target |-> "", body |-> NoBody, now |-> 0]]
  /\ resp' = [resp EXCEPT ![r] = ZeroResp]
  /\ listing' = [listing EXCEPT ![r] = ZeroListing]
  /\ trace' = [trace EXCEPT ![r] = <<>>]
  /\ hpc' = [hpc EXCEPT ![r] = "mux"]
  /\ UNCHANGED <<policies, identities>>

\* A request for some route arrives from some caller.
Arrive(r) == ArriveFor(r, Routes, Callers)

\* mux.HandleFunc(APIPath, timeout(Timeout, proxy(config.Proxy,
\*   config.Metrics.Count(config.Metrics.Latency(handler))))),
\* without proxy(...) for describePolicy.
Middleware(r) ==
  /\ hpc[r] = "mux"
  /\ LET route == req[r].route
         mw == <<Ev("timeout", ErrOK)>>
     IN IF HasProxy[route] /\ req[r].peer \in ProxyIdentities
        THEN IF req[r].fwd \in {NoCert, Malformed}
             THEN /\ Finish(r, Error(resp[r], ErrBadCert), mw \o <<Ev("proxy", ErrBadCert)>>)
                  /\ UNCHANGED req
             ELSE /\ req' = [req EXCEPT ![r].identity = req[r].fwd]
                  /\ Goto(r, "handler",
                          mw \o <<Ev("proxy", ErrOK), Ev("metrics.Count", ErrOK),
                                  Ev("metrics.Latency", ErrOK)>>)
                  /\ UNCHANGED resp
        ELSE /\ Goto(r, "handler",
                     mw \o (IF HasProxy[route] THEN <<Ev("proxy", ErrOK)>> ELSE <<>>)
                        \o <<Ev("metrics.Count", ErrOK), Ev("metrics.Latency", ErrOK)>>)
             /\ UNCHANGED <<req, resp>>
  /\ UNCHANGED <<policies, identities, listing>>

\* The handler normalizes the URL before it checks the method.
HandlerEntryURLFirst(r) ==
  /\ hpc[r] = "handler"
  /\ LET route == req[r].route
         a == <<Ev("audit", ErrOK)>>
     IN \/ /\ Finish(r, Error([resp[r] EXCEPT !.accept = Method[route]], errMethodNotAllowed),
                     a \o <<Ev("normalizeURL", ErrOK), Ev("method", errMethodNotAllowed)>>)
           /\ UNCHANGED req
        \/ /\ Finish(r, Error(resp[r], ErrBadPath),
                     a \o <<Ev("normalizeURL", ErrBadPath)>>)
           /\ UNCHANGED req
        \/ \E target \in Targets \ {BadPath} :
             \/ /\ Finish(r, Error(resp[r], ErrNoEnclave),
                          a \o <<Ev("normalizeURL", ErrOK), Ev("method", ErrOK),
                                 Ev("MaxBytesReader", ErrOK), Ev("lookupEnclave", ErrNoEnclave)>>)
                /\ req' = [req EXCEPT ![r].target = target]
             \/ /\ Goto(r, "verify",
                        a \o <<Ev("normalizeURL", ErrOK), Ev("method", ErrOK),
                               Ev("MaxBytesReader", ErrOK), Ev("lookupEnclave", ErrOK)>>)
                /\ req' = [req EXCEPT ![r].target = target]
                /\ UNCHANGED resp
  /\ UNCHANGED <<policies, identities, listing>>

\* The start of every handler: audit, the method check, normalizeURL,
\* http.MaxBytesReader, lookupEnclave.
HandlerEntry(r) ==
  /\ hpc[r] = "handler"
  /\ LET route == req[r].route
         a == <<Ev("audit", ErrOK)>>
     IN \/ /\ Finish(r, Error([resp[r] EXCEPT !.accept = Method[route]], errMethodNotAllowed),
                     a \o <<Ev("method", errMethodNotAllowed)>>)
           /\ UNCHANGED req
        \/ /\ Finish(r, Error(resp[r], ErrBadPath),
                     a \o <<Ev("method", ErrOK), Ev("normalizeURL", ErrBadPath)>>)
           /\ UNCHANGED req
        \/ \E target \in Targets \ {BadPath} :
             \/ /\ Finish(r, Error(resp[r], ErrNoEnclave),
                          a \o <<Ev("method", ErrOK), Ev("normalizeURL", ErrOK),
                                 Ev("MaxBytesReader", ErrOK), Ev("lookupEnclave", ErrNoEnclave)>>)
                /\ req' = [req EXCEPT ![r].target = target]
             \/ /\ Goto(r, "verify",
                        a \o <<Ev("method", ErrOK), Ev("normalizeURL", ErrOK),
                               Ev("MaxBytesReader", ErrOK), Ev("lookupEnclave", ErrOK)>>)
                /\ req' = [req EXCEPT ![r].target = target]
                /\ UNCHANGED resp
  /\ UNCHANGED <<policies, identities, listing>>

\* if err = enclave.VerifyRequest(r); err != nil { Error(w, err) } -- and no return
VerifyNoReturn(r) ==
  /\ hpc[r] = "verify"
  /\ LET err == VerifyRequest(r)
     IN /\ Goto(r, req[r].route, <<Ev("VerifyRequest", err)>>)
        /\ resp' = [resp EXCEPT ![r] = IF err # ErrOK THEN Error(@, err) ELSE @]
  /\ UNCHANGED <<policies, identities, req, listing>>

\* The policy is looked up before the caller is authorized.
AuthorizeAfterGet(r) ==
  /\ hpc[r] = "verify"
  /\ LET err == VerifyRequest(r)
         name == req[r].target
     IN IF req[r].route \in {"describe", "read"} /\ GetPolicy(name) # ErrOK
        THEN Finish(r, Error(resp[r], GetPolicy(name)), <<Ev("GetPolicy", GetPolicy(name))>>)
        ELSE IF err # ErrOK
        THEN Finish(r, Error(resp[r], err), <<Ev("VerifyRequest", err)>>)
        ELSE Goto(r, req[r].route, <<Ev("VerifyRequest", err)>>) /\ UNCHANGED resp
  /\ UNCHANGED <<policies, identities, req, listing>>

\* if err = enclave.VerifyRequest(r); err != nil { Error(w, err); return }
Authorize(r) ==
  /\ hpc[r] = "verify"
  /\ LET err == VerifyRequest(r)
     IN IF err # ErrOK
        THEN Finish(r, Error(resp[r], err), <<Ev("VerifyRequest", err)>>)
        ELSE Goto(r, req[r].route, <<Ev("VerifyRequest", err)>>) /\ UNCHANGED resp
  /\ UNCHANGED <<policies, identities, req, listing>>

\* describePolicy's Response{CreatedAt, CreatedBy}
DescribeResponse(policy) ==
  [created_at |-> policy.CreatedAt, created_by |-> policy.CreatedBy]

\* The response of read leaves out the policy's metadata.
ReadResponseAllowDeny(policy) == [allow |-> policy.Allow, deny |-> policy.Deny]

\* readPolicy's Response{Allow, Deny, CreatedAt, CreatedBy}
ReadResponse(policy) ==
  [allow |-> policy.Allow, deny |-> policy.Deny,
   created_at |-> policy.CreatedAt, created_by |-> policy.CreatedBy]

\* describePolicy after authorization: validateName, GetPolicy, encode the
\* policy's metadata.
describePolicy(r) ==
  /\ hpc[r] = "describe"
  /\ LET name == req[r].target
     IN IF validateName(name) # ErrOK
        THEN Finish(r, Error(resp[r], validateName(name)), <<Ev("validateName", validateName(name))>>)
        ELSE IF GetPolicy(name) # ErrOK
        THEN Finish(r, Error(resp[r], GetPolicy(name)),
                    <<Ev("validateName", ErrOK), Ev("GetPolicy", GetPolicy(name))>>)
        ELSE Finish(r, Encode(SetContentType(resp[r], ContentType.describe),
                              DescribeResponse(policies[name])),
                    <<Ev("validateName", ErrOK), Ev("GetPolicy", ErrOK)>>)
  /\ UNCHANGED <<policies, identities, req, listing>>

\* The check for the unknown identity is missing.
IsUnknownSkipped(identity) == FALSE

\* req.Identity.IsUnknown()
IsUnknown(identity) == identity = Unknown

\* The identity in the body is compared with the TLS peer.
IsSelfPeer(r, identity) == req[r].peer = identity

\* self := auth.Identify(r); self == req.Identity
IsSelf(r, identity) == Identify(r) = identity

\* assignPolicy after authorization: validateName, decode the body, refuse
\* an unknown identity and the caller's own, AssignPolicy.
assignPolicy(r) ==
  /\ hpc[r] = "assign"
  /\ LET name == req[r].target
         v == <<Ev("validateName", ErrOK)>>
         d == v \o <<Ev("Decode", ErrOK)>>
     IN IF validateName(name) # ErrOK
        THEN /\ Finish(r, Error(resp[r], validateName(name)), <<Ev("validateName", validateName(name))>>)
             /\ UNCHANGED <<identities, req>>
        ELSE \E body \in AssignBodies \cup {MalformedJSON} :
               /\ req' = [req EXCEPT ![r].body = body]
               /\ IF body = MalformedJSON
                  THEN /\ Finish(r, Error(resp[r], ErrBadJSON), v \o <<Ev("Decode", ErrBadJSON)>>)
                       /\ UNCHANGED identities
                  ELSE IF IsUnknown(body.identity)
                  THEN /\ Finish(r, Error(resp[r], ErrUnknownIdentity), d)
                       /\ UNCHANGED identities
                  ELSE IF IsSelf(r, body.identity)
                  THEN /\ Finish(r, Error(resp[r], ErrSelfAssign), d)
                       /\ UNCHANGED identities
                  ELSE \/ \E err \in {AssignPolicyErr(name, body.identity), ErrInternal} \ {ErrOK} :
                            /\ Finish(r, Error(resp[r], err), d \o <<Ev("AssignPolicy", err)>>)
                            /\ UNCHANGED identities
                       \/ /\ AssignPolicyErr(name, body.identity) = ErrOK
                          /\ identities' = AssignPolicy(name, body.identity)
                          /\ Finish(r, WriteHeaderOK(resp[r]), d \o <<Ev("AssignPolicy", ErrOK)>>)
  /\ UNCHANGED <<policies, listing>>

\* readPolicy after authorization: validateName, GetPolicy, encode the
\* policy's allow and deny lists.
readPolicy(r) ==
  /\ hpc[r] = "read"
  /\ LET name == req[r].target
     IN IF validateName(name) # ErrOK
        THEN Finish(r, Error(resp[r], validateName(name)), <<Ev("validateName", validateName(name))>>)
        ELSE IF GetPolicy(name) # ErrOK
        THEN Finish(r, Error(resp[r], GetPolicy(name)),
                    <<Ev("validateName", ErrOK), Ev("GetPolicy", GetPolicy(name))>>)
        ELSE Finish(r, Encode(SetContentType(resp[r], ContentType.read),
                              ReadResponse(policies[name])),
                    <<Ev("validateName", ErrOK), Ev("GetPolicy", ErrOK)>>)
  /\ UNCHANGED <<policies, identities, req, listing>>

\* The creator recorded is the TLS peer.
NewPolicyByPeer(r, body, now) ==
  [Allow |-> body.allow, Deny |-> body.deny, CreatedAt |-> now, CreatedBy |-> req[r].peer]

\* policy := &auth.Policy{Allow, Deny, CreatedAt: time.Now().UTC(),
\*   CreatedBy: auth.Identify(r)}
NewPolicy(r, body, now) ==
  [Allow |-> body.allow, Deny |-> body.deny, CreatedAt |-> now, CreatedBy |-> Identify(r)]

\* writePolicy after authorization: validateName, decode the body, SetPolicy
\* with the time of the request and the caller as creator.
writePolicy(r) ==
  /\ hpc[r] = "write"
  /\ LET name == req[r].target
         v == <<Ev("validateName", ErrOK)>>
         d == v \o <<Ev("Decode", ErrOK)>>
     IN IF validateName(name) # ErrOK
        THEN /\ Finish(r, Error(resp[r], validateName(name)), <<Ev("validateName", validateName(name))>>)
             /\ UNCHANGED <<policies, req>>
        ELSE \/ /\ req' = [req EXCEPT ![r].body = MalformedJSON]
                /\ Finish(r, Error(resp[r], ErrBadJSON), v \o <<Ev("Decode", ErrBadJSON)>>)
                /\ UNCHANGED policies
             \/ \E body \in Bodies, now \in Times :
                  /\ req' = [req EXCEPT ![r].body = body, ![r].now = now]
                  /\ \/ /\ Finish(r, Error(resp[r], ErrInternal), d \o <<Ev("SetPolicy", ErrInternal)>>)
                        /\ UNCHANGED policies
                     \/ /\ policies' = SetPolicy(name, NewPolicy(r, body, now))
                        /\ Finish(r, WriteHeaderOK(resp[r]), d \o <<Ev("SetPolicy", ErrOK)>>)
  /\ UNCHANGED <<identities, listing>>

\* deletePolicy after authorization: validateName, DeletePolicy.
deletePolicy(r) ==
  /\ hpc[r] = "delete"
  /\ LET name == req[r].target
         v == <<Ev("validateName", ErrOK)>>
     IN IF validateName(name) # ErrOK
        THEN /\ Finish(r, Error(resp[r], validateName(name)), <<Ev("validateName", validateName(name))>>)
             /\ UNCHANGED policies
        ELSE \/ \E err \in {ErrInternal} \cup (IF name \in DOMAIN policies THEN {} ELSE {ErrPolicyNotFound}) :
                  /\ Finish(r, Error(resp[r], err), v \o <<Ev("DeletePolicy", err)>>)
                  /\ UNCHANGED policies
             \/ /\ policies' = DeletePolicy(name)
                /\ Finish(r, WriteHeaderOK(resp[r]), v \o <<Ev("DeletePolicy", ErrOK)>>)
  /\ UNCHANGED <<identities, req, listing>>

\* listPolicy after authorization: validatePattern, ListPolicies.
listPolicy(r) ==
  /\ hpc[r] = "list"
  /\ LET pattern == req[r].target
         v == <<Ev("validatePattern", ErrOK)>>
     IN IF validatePattern(pattern) # ErrOK
        THEN /\ Finish(r, Error(resp[r], validatePattern(pattern)),
                       <<Ev("validatePattern", validatePattern(pattern))>>)
             /\ UNCHANGED listing
        ELSE \/ /\ Finish(r, Error(resp[r], ErrInternal), v \o <<Ev("ListPolicies", ErrInternal)>>)
                /\ UNCHANGED listing
             \/ \E values \in Perms(DOMAIN policies) :
                  /\ listing' = [listing EXCEPT ![r] =
                                   [values |-> values, last |-> "", hasWritten |-> FALSE,
                                    open |-> TRUE]]
                  /\ Goto(r, "loop", v \o <<Ev("ListPolicies", ErrOK)>>)
                  /\ resp' = [resp EXCEPT ![r] = SetContentType(@, ContentType.list)]
  /\ UNCHANGED <<policies, identities, req>>

\* A name whose policy GetPolicy does not find is skipped.
listLoopSkipsMissing(r) ==
  /\ hpc[r] = "loop"
  /\ listing[r].values # <<>>
  /\ LET name == Head(listing[r].values)
         it == [listing[r] EXCEPT !.values = Tail(@), !.last = name]
         n == <<Ev("iterator.Next", ErrOK)>>
     IN /\ IF ~PathMatch(req[r].target, name)
           THEN Goto(r, "loop", n) /\ UNCHANGED resp
           ELSE IF GetPolicy(name) # ErrOK
           THEN Goto(r, "loop", n \o <<Ev("GetPolicy", GetPolicy(name))>>) /\ UNCHANGED resp
           ELSE \/ Finish(r, resp[r], n \o <<Ev("GetPolicy", ErrOK), Ev("Encode", ErrInternal)>>)
                \/ /\ resp' = [resp EXCEPT ![r] =
                                 Encode(@, [name |-> name,
                                            created_at |-> policies[name].CreatedAt,
                                            created_by |-> policies[name].CreatedBy])]
                   /\ Goto(r, "loop", n \o <<Ev("GetPolicy", ErrOK), Ev("Encode", ErrOK)>>)
        /\ listing' = [listing EXCEPT ![r] =
                         IF PathMatch(req[r].target, name) /\ GetPolicy(name) = ErrOK /\ hpc'[r] = "loop"
                         THEN [it EXCEPT !.hasWritten = TRUE] ELSE it]
  /\ UNCHANGED <<policies, identities, req>>

\* One turn of listPolicy's loop: iterator.Next(), path.Match, GetPolicy,
\* encode one line; a failure writes an error line and returns.
listLoop(r) ==
  /\ hpc[r] = "loop"
  /\ listing[r].values # <<>>
  /\ LET name == Head(listing[r].values)
         it == [listing[r] EXCEPT !.values = Tail(@), !.last = name]
         n == <<Ev("iterator.Next", ErrOK)>>
     IN /\ IF ~PathMatch(req[r].target, name)
           THEN Goto(r, "loop", n) /\ UNCHANGED resp
           ELSE IF GetPolicy(name) # ErrOK
           THEN Finish(r, Encode(resp[r], [error |-> GetPolicy(name).msg]),
                       n \o <<Ev("GetPolicy", GetPolicy(name))>>)
           ELSE \/ Finish(r, resp[r], n \o <<Ev("GetPolicy", ErrOK), Ev("Encode", ErrInternal)>>)
                \/ /\ resp' = [resp EXCEPT ![r] =
                                 Encode(@, [name |-> name,
                                            created_at |-> policies[name].CreatedAt,
                                            created_by |-> policies[name].CreatedBy])]
                   /\ Goto(r, "loop", n \o <<Ev("GetPolicy", ErrOK), Ev("Encode", ErrOK)>>)
        /\ listing' = [listing EXCEPT ![r] =
                         IF PathMatch(req[r].target, name) /\ hpc'[r] = "loop"
                         THEN [it EXCEPT !.hasWritten = TRUE] ELSE it]
  /\ UNCHANGED <<policies, identities, req>>

\* The end of listPolicy: iterator.Next() is false, iterator.Close(), an
\* error line on failure, status 200 if nothing was written.
listClose(r) ==
  /\ hpc[r] = "loop"
  /\ listing[r].values = <<>>
  /\ listing' = [listing EXCEPT ![r].open = FALSE]
  /\ LET n == <<Ev("iterator.Next", ErrOK)>>
     IN \/ Finish(r, Encode(resp[r], [error |-> ErrInternal.msg]),
                  n \o <<Ev("iterator.Close", ErrInternal)>>)
        \/ Finish(r, IF listing[r].hasWritten THEN resp[r] ELSE WriteHeaderOK(resp[r]),
                  n \o <<Ev("iterator.Close", ErrOK)>>)
  /\ UNCHANGED <<policies, identities, req>>

\* ------------------------------------------------- the observer
Outside(p) == p \in {"idle", "done"}

\* atLock[t] is the store at the moment t's call acquired the lock; yield[t]
\* collects what Name() gives after each Next that returned true.
Observe ==
  /\ atLock' = [t \in Threads |->
                  IF pc[t] = "lock" /\ pc'[t] # "lock" THEN store
                  ELSE IF Outside(pc'[t]) THEN ZeroStore
                  ELSE atLock[t]]
  /\ yield' = [t \in Threads |->
                 IF pc'[t] # "done" THEN <<>>
                 ELSE IF pc[t] = "done" /\ iter'[t] # iter[t] /\ nextRet'[t] = "true"
                      THEN Append(yield[t], Name(iter'[t]))
                 ELSE yield[t]]

\* lin follows the calls and the returns, and nothing else.
LinObserve ==
  lin' = IF \E t \in Threads : pc'[t] # pc[t] /\ Outside(pc[t])
         THEN LET t == CHOOSE u \in Threads : pc'[u] # pc[u] /\ Outside(pc[u])
              IN LinCall(t, op')
         ELSE IF \E t \in Threads : pc'[t] # pc[t] /\ pc'[t] = "done"
         THEN LET t == CHOOSE u \in Threads : pc'[u] # pc[u] /\ pc'[u] = "done"
              IN LinReturn(t, ret'[t], IF op[t].f = "List" THEN Range(iter'[t].values) ELSE {})
         ELSE lin

vars == <<storeVars, obsVars, policyVars>>

NoLin == Observe /\ UNCHANGED lin /\ UNCHANGED policyVars

WithLin == Observe /\ LinObserve /\ UNCHANGED policyVars

StoreStep ==
  \E t \in Threads :
    \/ \E o \in Ops : Call(t, o) /\ NoLin
    \/ Return(t) /\ NoLin
    \/ StatusReturn(t) /\ NoLin
    \/ CreateLock(t) /\ NoLin
    \/ CreateCheck(t) /\ NoLin
    \/ CreateAssign(t) /\ NoLin
    \/ DeleteLock(t) /\ NoLin
    \/ DeleteEntry(t) /\ NoLin
    \/ GetRLock(t) /\ NoLin
    \/ GetLookup(t) /\ NoLin
    \/ ListRLock(t) /\ NoLin
    \/ ListRange(t) /\ NoLin
    \/ IterNext(t) /\ NoLin

Spec == Init /\ [][StoreStep]_vars

\* s.lock.Lock() or s.lock.RLock() of goroutine t's call
Acquire(t) == (CreateLock(t) \/ DeleteLock(t) \/ GetRLock(t) \/ ListRLock(t)) /\ NoLin

\* A step of goroutine t inside a method, its return included.
Run(t) ==
  /\ \/ Return(t) \/ StatusReturn(t) \/ CreateCheck(t) \/ CreateAssign(t)
     \/ DeleteEntry(t) \/ GetLookup(t) \/ ListRange(t)
  /\ NoLin

\* The scheduler runs every goroutine that can run, and sync.RWMutex lets no
\* goroutine starve that waits in Lock or RLock: a waiting Lock keeps new
\* readers out.  Nothing obliges a caller to make a call or to call Next.
SpecFair ==
  /\ Spec
  /\ \A t \in Threads : WF_vars(Run(t)) /\ SF_vars(Acquire(t))

LinStoreStep ==
  \E t \in Threads :
    \/ \E o \in Ops : Call(t, o) /\ WithLin
    \/ Return(t) /\ WithLin
    \/ StatusReturn(t) /\ WithLin
    \/ CreateLock(t) /\ WithLin
    \/ CreateCheck(t) /\ WithLin
    \/ CreateAssign(t) /\ WithLin
    \/ DeleteLock(t) /\ WithLin
    \/ DeleteEntry(t) /\ WithLin
    \/ GetRLock(t) /\ WithLin
    \/ GetLookup(t) /\ WithLin
    \/ ListRLock(t) /\ WithLin
    \/ ListRange(t) /\ WithLin
    \/ IterNext(t) /\ WithLin

SpecLin == Init /\ [][LinStoreStep]_vars

NoStore == UNCHANGED <<storeVars, obsVars>>

\* The requests that SpecPolicy serves: one at a time.
Alone == {1}

PolicyStep ==
  \E r \in Alone :
    \/ Arrive(r) /\ NoStore
    \/ Middleware(r) /\ NoStore
    \/ HandlerEntry(r) /\ NoStore
    \/ Authorize(r) /\ NoStore
    \/ describePolicy(r) /\ NoStore
    \/ assignPolicy(r) /\ NoStore
    \/ readPolicy(r) /\ NoStore
    \/ writePolicy(r) /\ NoStore
    \/ deletePolicy(r) /\ NoStore
    \/ listPolicy(r) /\ NoStore
    \/ listLoop(r) /\ NoStore
    \/ listClose(r) /\ NoStore

SpecPolicy == Init /\ [][PolicyStep]_vars

\* A list request served while the admin identity writes and deletes
\* policies in a second request.
AdminCaller == {c \in Callers : c.peer = Admin /\ c.fwd = NoCert}

ListRaceStep ==
  \/ ArriveFor(1, {"list"}, AdminCaller) /\ NoStore
  \/ ArriveFor(2, {"write", "delete"}, AdminCaller) /\ NoStore
  \/ \E r \in Reqs :
       \/ Middleware(r) /\ NoStore
       \/ HandlerEntry(r) /\ NoStore
       \/ Authorize(r) /\ NoStore
       \/ writePolicy(r) /\ NoStore
       \/ deletePolicy(r) /\ NoStore
       \/ listPolicy(r) /\ NoStore
       \/ listLoop(r) /\ NoStore
       \/ listClose(r) /\ NoStore

SpecListRace == Init /\ [][ListRaceStep]_vars

\* ================================================= the store's claims
AtUnlock(t, f) == pc[t] = "unlock" /\ op[t].f = f

\* m with the entry name |-> k
WithEntry(m, name, k) == [n \in DOMAIN m \cup {name} |-> IF n = name THEN k ELSE m[n]]

\* m without an entry for name
WithoutEntry(m, name) == [n \in DOMAIN m \ {name} |-> m[n]]

IsInjective(s) == \A i, j \in DOMAIN s : s[i] = s[j] => i = j

\* goroutine t takes a step of its own in this transition
Steps(t) == pc'[t] # pc[t]

\* C1: Create is an atomic create-if-absent.  When Create(name, k) is about to
\* return, still holding the lock: if name had no entry when Create took the
\* lock, the store is the store of that moment with name |-> k added and
\* Create returns nil; if name had an entry, Create returns ErrKeyExists and
\* the whole store is as it was at that moment.
C1_CreateIfAbsent ==
  \A t \in Threads :
    AtUnlock(t, "Create") =>
      IF op[t].name \in DOMAIN atLock[t].m
      THEN ret[t].err = ErrKeyExists /\ store = atLock[t]
      ELSE /\ ret[t].err = ErrNil
           /\ ~store.isNil
           /\ store.m = WithEntry(atLock[t].m, op[t].name, op[t].k)

\* A Create that finds the name taken by a different key, and leaves it.
C1_Witness ==
  \E t \in Threads :
    /\ AtUnlock(t, "Create")
    /\ ret[t].err = ErrKeyExists
    /\ op[t].name \in DOMAIN store.m
    /\ store.m[op[t].name] # op[t].k

\* C2: every history of concurrent Create, Get, Delete (and List, Status)
\* calls is linearizable: some order of the calls that respects real time
\* gives each call the result it returned, with Create, Get and Delete
\* behaving as create-if-absent, lookup and removal on a map.
C2_Linearizable == lin # {}

\* Two Creates of the same name: one returned nil, the other is about to
\* return ErrKeyExists.
C2_Witness ==
  \E t, u \in Threads :
    /\ t # u
    /\ op[t].f = "Create" /\ op[u].f = "Create" /\ op[t].name = op[u].name
    /\ pc[t] = "done" /\ ret[t].err = ErrNil
    /\ pc[u] = "unlock" /\ ret[u].err = ErrKeyExists
    /\ op[t].k # op[u].k

\* C3: Get returns the stored key and nil exactly when the name has an
\* entry, and the zero key with ErrKeyNotFound exactly when it has none; no
\* step of a Get changes the store.
C3_GetResult ==
  \A t \in Threads :
    AtUnlock(t, "Get") =>
      /\ store = atLock[t]
      /\ IF op[t].name \in DOMAIN store.m
         THEN ret[t] = [err |-> ErrNil, val |-> store.m[op[t].name], lat |-> 0]
         ELSE ret[t] = [err |-> ErrKeyNotFound, val |-> ZeroKey, lat |-> 0]

C3_GetReadOnly ==
  \A t \in Threads : Steps(t) /\ (op[t].f = "Get" \/ op'[t].f = "Get") => store' = store

C3_Get == []C3_GetResult /\ [][C3_GetReadOnly]_vars

\* Two Gets hold the read lock together: one found a key, one found nothing.
C3_Witness ==
  \E t, u \in Threads :
    /\ AtUnlock(t, "Get") /\ ret[t].err = ErrNil /\ ret[t].val \in Keys
    /\ AtUnlock(u, "Get") /\ ret[u].err = ErrKeyNotFound

\* C4: Delete returns nil whether or not the name has an entry; when it
\* returns the name has no entry; a Delete of a name that has no entry leaves
\* the store as it found it, and deleting twice gives what deleting once gives.
C4_DeleteIdempotent ==
  /\ \A t \in Threads :
       AtUnlock(t, "Delete") =>
         /\ ret[t].err = ErrNil
         /\ op[t].name \notin DOMAIN store.m
         /\ store.m = WithoutEntry(atLock[t].m, op[t].name)
         /\ (op[t].name \notin DOMAIN atLock[t].m => store = atLock[t])
  /\ \A n \in Names : MapDelete(MapDelete(store, n), n) = MapDelete(store, n)

\* A second Delete of a name, in a store that holds another name.
C4_Witness ==
  \E t, u \in Threads :
    /\ t # u
    /\ pc[u] = "done" /\ op[u].f = "Delete" /\ op[u].name = op[t].name
    /\ AtUnlock(t, "Delete")
    /\ op[t].name \notin DOMAIN atLock[t].m
    /\ DOMAIN store.m # {}

\* C5: no step overwrites the key of a name that has one: an entry changes
\* only by the removal a Delete of that name makes and by the insertion a
\* Create of that name makes, of the key it was called with.
C5_NoOverwriteStep ==
  \A n \in Names :
    /\ n \in DOMAIN store.m /\ n \in DOMAIN store'.m => store'.m[n] = store.m[n]
    /\ n \in DOMAIN store.m /\ n \notin DOMAIN store'.m =>
         \E t \in Threads : Steps(t) /\ op[t].f = "Delete" /\ op[t].name = n
    /\ n \notin DOMAIN store.m /\ n \in DOMAIN store'.m =>
         \E t \in Threads :
           Steps(t) /\ op[t].f = "Create" /\ op[t].name = n /\ store'.m[n] = op[t].k

C5_NoOverwrite == [][C5_NoOverwriteStep]_vars

\* A name whose key is no longer the one a returned Create stored: it was
\* deleted and created again.
C5_Witness ==
  \E t \in Threads :
    /\ pc[t] = "done" /\ op[t].f = "Create" /\ ret[t].err = ErrNil
    /\ op[t].name \in DOMAIN store.m
    /\ store.m[op[t].name] # op[t].k

\* C6: when List returns, its iterator holds each name of the store exactly
\* once and no other name; the names it yields followed by the names it has
\* still to yield stay that same sequence, so each name is yielded once, in a
\* fixed order.
C6_ListNames ==
  \A t \in Threads :
    /\ AtUnlock(t, "List") =>
         /\ store = atLock[t]
         /\ Range(iter[t].values) = DOMAIN store.m
         /\ Len(iter[t].values) = Cardinality(DOMAIN store.m)
    /\ pc[t] = "done" /\ op[t].f = "List" => IsInjective(yield[t] \o iter[t].values)

C6_FixedOrder ==
  \A t \in Threads :
    pc[t] = "done" /\ pc'[t] = "done" =>
      yield'[t] \o iter'[t].values = yield[t] \o iter[t].values

C6_List == []C6_ListNames /\ [][C6_FixedOrder]_vars

\* An iterator that has yielded every name of a store of NNames names.
C6_Witness ==
  \E t \in Threads :
    /\ pc[t] = "done" /\ op[t].f = "List"
    /\ Len(yield[t]) = NNames
    /\ iter[t].values = <<>>

\* C7: a Next that returns true moves to the first name not yet yielded, and
\* Name() is that name until the next call of Next; Next returns true while
\* names are left and false from then on; Err() is nil.
NextCalled(t) ==
  /\ pc[t] = "done" /\ pc'[t] = "done" /\ op[t].f = "List"
  /\ <<iter'[t], nextRet'[t]>> # <<iter[t], nextRet[t]>>

C7_NextStep ==
  \A t \in Threads :
    NextCalled(t) =>
      IF iter[t].values # <<>>
      THEN /\ nextRet'[t] = "true"
           /\ Name(iter'[t]) = Head(iter[t].values)
           /\ iter'[t].values = Tail(iter[t].values)
      ELSE nextRet'[t] = "false" /\ iter'[t] = iter[t]

C7_NameAndErr ==
  \A t \in Threads :
    /\ nextRet[t] = "true" => yield[t] # <<>> /\ Name(iter[t]) = yield[t][Len(yield[t])]
    /\ nextRet[t] = "false" => iter[t].values = <<>> /\ ~Next(iter[t]).ok
    /\ Err(iter[t]) = ErrNil

C7_IteratorProtocol == []C7_NameAndErr /\ [][C7_NextStep]_vars

\* Next has returned true NNames times and then false.
C7_Witness ==
  \E t \in Threads : nextRet[t] = "false" /\ Len(yield[t]) = NNames

\* C8: Status returns available, latency 0 and nil; it can return in every
\* state, whoever holds the lock; no step of a Status call changes the store
\* or the lock.
C8_StatusResult ==
  \A t \in Threads :
    /\ pc[t] = "done" /\ op[t].f = "Status" =>
         ret[t] = [err |-> ErrNil, val |-> StoreAvailable, lat |-> 0]
    /\ pc[t] = "status" => ENABLED StatusReturn(t)

C8_StatusFrame ==
  \A t \in Threads :
    Steps(t) /\ (op[t].f = "Status" \/ op'[t].f = "Status") => store' = store /\ lock' = lock

C8_Status == []C8_StatusResult /\ [][C8_StatusFrame]_vars

\* A Status call in progress while another goroutine holds the write lock.
C8_Witness ==
  \E t \in Threads : pc[t] = "status" /\ lock.w \notin {NoThread, t}

\* C9: on a Store whose map is nil, Get returns ErrKeyNotFound, Delete returns
\* nil and leaves the map nil, List returns an iterator whose first Next is
\* false, Create returns nil and stores the key; no call panics.
C9_ZeroValue ==
  \A t \in Threads :
    /\ ret[t].err # ErrPanic
    /\ pc[t] = "unlock" /\ atLock[t].isNil =>
         CASE op[t].f = "Get" -> ret[t] = [err |-> ErrKeyNotFound, val |-> ZeroKey, lat |-> 0]
           [] op[t].f = "Delete" -> ret[t].err = ErrNil /\ store.isNil
           [] op[t].f = "List" -> ret[t].err = ErrNil /\ ~Next(iter[t]).ok
           [] op[t].f = "Create" ->
                /\ ret[t].err = ErrNil
                /\ op[t].name \in DOMAIN store.m
                /\ store.m[op[t].name] = op[t].k
           [] OTHER -> TRUE

\* A Create on the nil map, after a Delete on it has returned.
C9_Witness ==
  \E t, u \in Threads :
    /\ t # u
    /\ pc[u] = "done" /\ op[u].f = "Delete"
    /\ AtUnlock(t, "Create") /\ atLock[t].isNil

\* ================================================= the policy routes' claims
EnclaveOps == {"GetPolicy", "SetPolicy", "DeletePolicy", "AssignPolicy", "ListPolicies"}

\* enclave.VerifyRequest returned nil among the first n calls of request r
VerifiedBy(r, n) ==
  \E j \in 1..n : trace[r][j].call = "VerifyRequest" /\ trace[r][j].err = ErrOK.msg

\* enclave.VerifyRequest returned an error for request r
Denied(r) ==
  \E j \in DOMAIN trace[r] : trace[r][j].call = "VerifyRequest" /\ trace[r][j].err # ErrOK.msg

CallsEnclaveOp(r) == \E i \in DOMAIN trace[r] : trace[r][i].call \in EnclaveOps

\* C10, first part: every enclave operation a request invokes comes after a
\* VerifyRequest of the same request that returned nil.
C10_Gate ==
  \A r \in Reqs : \A i \in DOMAIN trace[r] :
    trace[r][i].call \in EnclaveOps => VerifiedBy(r, i - 1)

\* C10, second part: a request whose VerifyRequest failed has ended, its
\* response is the authorization error, and it invoked no enclave operation.
C10_Answer ==
  \A r \in Reqs :
    Denied(r) =>
      /\ hpc[r] = "done"
      /\ resp[r] = Error(ZeroResp, ErrNotAllowed)
      /\ ~CallsEnclaveOp(r)

\* C10, third part: a step changes the policy table or the identity mapping
\* only if it is a step of a request whose VerifyRequest returned nil.
C10_Frame ==
  (policies' # policies \/ identities' # identities) =>
    \E r \in Reqs :
      /\ trace'[r] # trace[r]
      /\ VerifiedBy(r, Len(trace[r]))
      /\ ~Denied(r)'

\* C10: on every policy route no enclave operation is invoked for a request
\* unless VerifyRequest succeeded for it, and a request that fails
\* authorization gets the authorization error and leaves the policy table
\* and the identity mapping as they were.
C10_AuthorizationGate == []C10_Gate /\ []C10_Answer /\ [][C10_Frame]_vars

\* An identity with an assigned policy is refused a write, delete or assign
\* of a policy that exists.
C10_Witness ==
  \E r \in Reqs :
    /\ hpc[r] = "done"
    /\ Denied(r)
    /\ req[r].route \in {"write", "delete", "assign"}
    /\ req[r].target \in DOMAIN policies
    /\ Identify(r) \in DOMAIN identities

\* The calls of a request that read neither the policy table nor the name
\* in the request's path.
PreChecks ==
  {"timeout", "proxy", "metrics.Count", "metrics.Latency", "audit", "method",
   "normalizeURL", "MaxBytesReader", "lookupEnclave"}

\* The step of request r that leaves the authorization check.
LeavesVerify(r) == hpc[r] = "verify" /\ hpc'[r] # "verify"

\* C11, first part: the step that authorizes a caller the enclave refuses
\* ends the request with one fixed response, whatever the policy table
\* holds and whatever name the path carries.
C11_DeniedStep ==
  \A r \in Reqs :
    LeavesVerify(r) /\ VerifyRequest(r) # ErrOK =>
      /\ hpc'[r] = "done"
      /\ resp'[r] = Error(ZeroResp, ErrNotAllowed)

\* C11, second part: nothing a refused request called apart from
\* VerifyRequest reads the policy table or the name.
C11_NothingRead ==
  \A r \in Reqs :
    Denied(r) =>
      \A i \in DOMAIN trace[r] : trace[r][i].call \in PreChecks \cup {"VerifyRequest"}

\* C11: a caller whose authorization fails gets the same response on every
\* policy route whether the named policy exists or not and whether the name
\* is valid or not.
C11_NoEnumeration == [][C11_DeniedStep]_vars /\ []C11_NothingRead

\* A refused describe or read of a name that is not in the non-empty table.
C11_Witness ==
  \E r \in Reqs :
    /\ hpc[r] = "done"
    /\ Denied(r)
    /\ req[r].route \in {"describe", "read"}
    /\ req[r].target \notin DOMAIN policies
    /\ policies # <<>>

\* The positions in request r's trace at which call was made.
At(r, call) == {i \in DOMAIN trace[r] : trace[r][i].call = call}

\* C12: on every policy route, when the TLS peer is one of the proxy
\* identities and forwards a certificate, the identity VerifyRequest
\* authorizes is the forwarded one, not the proxy's own.
C12_ForwardedIdentity ==
  \A r \in Reqs :
    /\ req[r].peer \in ProxyIdentities
    /\ req[r].fwd \notin {NoCert, Malformed}
    /\ At(r, "VerifyRequest") # {}
    => Identify(r) = req[r].fwd

\* C13: the middleware of every policy route is entered in the order audit,
\* timeout, metrics, proxy unwrap, all before the method check.
C13_MiddlewareOrder ==
  \A r \in Reqs :
    \A m \in At(r, "method") :
      \E a \in At(r, "audit"), t \in At(r, "timeout"),
         c \in At(r, "metrics.Count"), p \in At(r, "proxy") :
        a < t /\ t < c /\ c < p /\ p < m

\* C14: every request to a policy route, whatever its outcome, produces
\* exactly one audit record.
C14_OneAuditRecord ==
  \A r \in Reqs : hpc[r] = "done" => Cardinality(At(r, "audit")) = 1

\* The step of assignPolicy for request r, having decoded a body.
AssignStep(r) ==
  /\ hpc[r] = "assign"
  /\ hpc'[r] # "assign"
  /\ req'[r].body \in AssignBodies

\* C15, as a step: an assign request that names the caller's effective
\* identity is answered 403 "identity cannot assign policy to itself",
\* without a call of AssignPolicy and with the identity mapping unchanged.
C15_Step ==
  \A r \in Reqs :
    AssignStep(r) /\ req'[r].body.identity = Identify(r) =>
      /\ resp'[r].status = 403
      /\ resp'[r].msg = "identity cannot assign policy to itself"
      /\ At(r, "AssignPolicy")' = {}
      /\ identities' = identities

\* C15: the self-assign guard of assignPolicy.
C15_SelfAssignGuard == [][C15_Step]_vars

\* Through a proxy, alice asks to assign an existing policy to alice, is
\* authorized to assign, and is refused by the guard.
C15_Witness ==
  \E r \in Reqs :
    /\ hpc[r] = "done"
    /\ req[r].route = "assign"
    /\ req[r].peer \in ProxyIdentities
    /\ req[r].body \in AssignBodies
    /\ req[r].body.identity = Identify(r)
    /\ req[r].target \in DOMAIN policies
    /\ resp[r] = Error(ZeroResp, ErrSelfAssign)

\* C16, as a step: an assign request that names the unknown identity is
\* answered 400 "identity is unknown" without a call of AssignPolicy.
C16_Step ==
  \A r \in Reqs :
    AssignStep(r) /\ req'[r].body.identity = Unknown =>
      /\ resp'[r].status = 400
      /\ resp'[r].msg = "identity is unknown"
      /\ At(r, "AssignPolicy")' = {}
      /\ identities' = identities

\* C16, as a state: the unknown identity is bound to no policy.
C16_NeverBound == Unknown \notin DOMAIN identities

\* C16: assignPolicy refuses the unknown identity, which therefore never
\* becomes bound to a policy through this route.
C16_UnknownIdentity == [][C16_Step]_vars /\ []C16_NeverBound

\* An authorized caller asks to assign an existing policy to the unknown
\* identity and is refused.
C16_Witness ==
  \E r \in Reqs :
    /\ hpc[r] = "done"
    /\ req[r].route = "assign"
    /\ req[r].body \in AssignBodies
    /\ req[r].body.identity = Unknown
    /\ req[r].target \in DOMAIN policies
    /\ resp[r] = Error(ZeroResp, ErrUnknownIdentity)

\* ================================================= the store's claims, continued
\* Goroutine t has called a method and has not yet got the store's lock.
Waiting(t) == pc[t] = "lock"

\* Goroutine u is inside a method, between getting the lock and returning.
InCall(u) == pc[u] \in {"check", "assign", "delete", "lookup", "range", "unlock"}

Writing(u) == InCall(u) /\ op[u].f \in {"Create", "Delete"}

\* The next step of a waiting goroutine t can be taken now.
CanProceed(t) == ENABLED (CreateLock(t) \/ DeleteLock(t) \/ GetRLock(t) \/ ListRLock(t))

OnName(t) == op[t].f \in {"Create", "Get", "Delete"}

Checks ==
  {"method", "normalizeURL", "MaxBytesReader", "lookupEnclave", "VerifyRequest",
   "validateName", "validatePattern"}

\* The place of a call in the order the claim states.
Rank(call) ==
  CASE call = "method" -> 1
    [] call = "normalizeURL" -> 2
    [] call = "MaxBytesReader" -> 3
    [] call = "lookupEnclave" -> 4
    [] call = "VerifyRequest" -> 5
    [] call \in {"validateName", "validatePattern"} -> 6
    [] call \in EnclaveOps -> 7

\* The positions in request r's trace of the checks and enclave operations.
Ranked(r) == {i \in DOMAIN trace[r] : trace[r][i].call \in Checks \cup EnclaveOps}

\* C18, first part: inside the handler the n-th of these calls is the n-th
\* check of the order, and the enclave operations come after all six.
C18_Order ==
  \A r \in Reqs : \A i \in Ranked(r) :
    LET n == Cardinality({j \in Ranked(r) : j < i}) + 1
    IN /\ \E a \in At(r, "audit") : a < i
       /\ Rank(trace[r][i].call) = IF n <= 6 THEN n ELSE 7
       /\ trace[r][i].call = "validateName" => req[r].route # "list"
       /\ trace[r][i].call = "validatePattern" => req[r].route = "list"

\* C18, second part: a check that fails is the last call of the request,
\* and the response is its error, with the Accept header set to the route's
\* method when it is the method check.
C18_FirstError ==
  \A r \in Reqs : \A i \in Ranked(r) :
    trace[r][i].err # ErrOK.msg =>
      /\ i = Len(trace[r])
      /\ hpc[r] = "done"
      /\ trace[r][i].call \in Checks =>
           /\ resp[r].msg = trace[r][i].err
           /\ resp[r].status \in 400..499
           /\ resp[r].body = <<>>
           /\ IF trace[r][i].call = "method"
              THEN resp[r].status = 405 /\ resp[r].accept = Method[req[r].route]
              ELSE resp[r].accept = ""

\* C18: the order of the checks in every policy handler, and the answer of
\* the first one that fails.
C18_CheckOrder == []C18_Order /\ []C18_FirstError

\* A request passes five checks and fails the validation of the name.
C18_Witness ==
  \E r \in Reqs :
    /\ hpc[r] = "done"
    /\ Cardinality(Ranked(r)) = 6
    /\ trace[r][Len(trace[r])].call \in {"validateName", "validatePattern"}
    /\ resp[r] = Error(ZeroResp, ErrBadName)

\* The step of writePolicy that ends request r.
WriteStep(r) == hpc[r] = "write" /\ hpc'[r] = "done"

\* SetPolicy was called for request r and returned nil.
SetPolicyOK(r) == \E i \in At(r, "SetPolicy") : trace[r][i].err = ErrOK.msg

\* C19, as a step: writePolicy answers 200 exactly when SetPolicy returned
\* nil; then the table holds under the name exactly the request's allow and
\* deny, the caller's effective identity and the time of the write, and
\* nothing else changed; otherwise the table is unchanged, and SetPolicy is
\* not called after a failed validation or decoding.
C19_Step ==
  \A r \in Reqs :
    WriteStep(r) =>
      LET name == req[r].target
      IN /\ resp'[r].status = 200 <=> SetPolicyOK(r)'
         /\ SetPolicyOK(r)' =>
              /\ req'[r].body \in Bodies
              /\ DOMAIN policies' = DOMAIN policies \cup {name}
              /\ policies'[name] =
                   [Allow |-> req'[r].body.allow, Deny |-> req'[r].body.deny,
                    CreatedAt |-> req'[r].now, CreatedBy |-> req'[r].identity]
              /\ \A n \in DOMAIN policies \ {name} : policies'[n] = policies[n]
         /\ ~SetPolicyOK(r)' => policies' = policies
         /\ (\E i \in DOMAIN trace'[r] :
               trace'[r][i].call \in {"validateName", "Decode"} /\ trace'[r][i].err # ErrOK.msg)
              => At(r, "SetPolicy")' = {}

\* C19: what a successful write stores, and when SetPolicy is called.
C19_Write == [][C19_Step]_vars

\* Through a proxy, a caller has replaced the policy it is itself bound to,
\* with the time 2.
C19_Witness ==
  \E r \in Reqs :
    /\ hpc[r] = "done"
    /\ req[r].route = "write"
    /\ req[r].peer \in ProxyIdentities
    /\ resp[r].status = 200
    /\ Identify(r) \in DOMAIN identities
    /\ identities[Identify(r)] = req[r].target
    /\ policies[req[r].target].CreatedAt = 2

\* Request r, being served, takes a step.
ServedStep(r) == hpc[r] \notin {"idle", "done"} /\ trace'[r] # trace[r]

\* C20, first part: no step of a describe, read or list request changes the
\* policy table or the identity mapping.
C20_ReadOnly ==
  \A r \in Reqs :
    ServedStep(r) /\ req[r].route \in {"describe", "read", "list"} =>
      policies' = policies /\ identities' = identities

\* C20, second part: a describe that finds the policy answers with its
\* created_at and created_by and nothing else, a read with its allow, deny,
\* created_at and created_by.
C20_Answers ==
  \A r \in Reqs :
    LET p == policies[req[r].target]
        found == hpc'[r] = "done" /\ trace'[r][Len(trace'[r])] = Ev("GetPolicy", ErrOK)
    IN /\ hpc[r] = "describe" /\ found =>
            /\ resp'[r].status = 200
            /\ resp'[r].body = <<[created_at |-> p.CreatedAt, created_by |-> p.CreatedBy]>>
       /\ hpc[r] = "read" /\ found =>
            /\ resp'[r].status = 200
            /\ resp'[r].body =
                 <<[allow |-> p.Allow, deny |-> p.Deny,
                    created_at |-> p.CreatedAt, created_by |-> p.CreatedBy]>>

\* C20: describePolicy, readPolicy and listPolicy are read-only, and what
\* describe and read answer.
C20_ReadRoutes == [][C20_ReadOnly]_vars /\ [][C20_Answers]_vars

\* A read has answered with a policy that denies something.
C20_Witness ==
  \E r \in Reqs :
    /\ hpc[r] = "done"
    /\ req[r].route = "read"
    /\ resp[r].status = 200
    /\ Len(resp[r].body) = 1
    /\ resp[r].body[1].deny # <<>>
    /\ identities # <<>>

\* A line of the list response that reports an error, and one that is an entry.
IsErrorLine(l) == "error" \in DOMAIN l

IsEntryLine(l) == "name" \in DOMAIN l

\* The entry line of the policy stored under name.
EntryLine(name) ==
  [name |-> name, created_at |-> policies[name].CreatedAt,
   created_by |-> policies[name].CreatedBy]

\* The pattern is * or the name itself.
Covers(pattern, name) == pattern \in {Star, name}

\* The names that the pattern of request r matches in the policy table.
Matching(r) == {n \in DOMAIN policies : Covers(req[r].target, n)}

\* C21, as a step: a turn of the loop takes the name the iterator yields
\* next; it emits nothing for a name the pattern does not match and at most
\* the entry line of a name it matches, and goes on only after that line;
\* the end of the loop emits at most one error line.
C21_Step ==
  \A r \in Reqs :
    hpc[r] = "loop" /\ trace'[r] # trace[r] =>
      LET body == resp[r].body
          values == listing[r].values
      IN IF values # <<>>
         THEN /\ listing'[r].values = Tail(values)
              /\ ~Covers(req[r].target, Head(values)) =>
                   resp'[r].body = body /\ hpc'[r] = "loop"
              /\ Covers(req[r].target, Head(values)) /\ Head(values) \in DOMAIN policies =>
                   \/ resp'[r].body = Append(body, EntryLine(Head(values))) /\ hpc'[r] = "loop"
                   \/ resp'[r].body = body /\ hpc'[r] = "done"
         ELSE /\ hpc'[r] = "done"
              /\ \/ resp'[r].body = body
                 \/ /\ Len(resp'[r].body) = Len(body) + 1
                    /\ IsErrorLine(resp'[r].body[Len(body) + 1])

\* C21, as a state: an error line is the last line of a response that has
\* ended, the entry lines are of different names that match the pattern, and
\* a list that ran to its end without an error has one entry line for every
\* matching policy.
C21_Lines ==
  \A r \in Reqs :
    req[r].route = "list" =>
      LET body == resp[r].body
      IN /\ \A i \in DOMAIN body :
              IF IsErrorLine(body[i])
              THEN i = Len(body) /\ hpc[r] = "done"
              ELSE /\ IsEntryLine(body[i])
                   /\ body[i].name \in Matching(r)
                   /\ \A j \in DOMAIN body : j # i /\ IsEntryLine(body[j]) => body[j].name # body[i].name
         /\ hpc[r] = "done" /\ Len(trace[r]) > 0 /\ trace[r][Len(trace[r])] = Ev("iterator.Close", ErrOK) =>
              /\ {body[i].name : i \in DOMAIN body} = Matching(r)
              /\ \A i \in DOMAIN body : body[i] = EntryLine(body[i].name)

\* C21: the response of listPolicy without concurrent modification.
C21_ListResponse == [][C21_Step]_vars /\ []C21_Lines

\* A list with a pattern that matches one of two policies has ended with
\* that policy's line only.
C21_Witness ==
  \E r \in Reqs :
    /\ hpc[r] = "done"
    /\ req[r].route = "list"
    /\ req[r].target \in PolicyNames
    /\ Cardinality(DOMAIN policies) = 2
    /\ Len(resp[r].body) = 1
    /\ trace[r][Len(trace[r])] = Ev("iterator.Close", ErrOK)

\* C22: once ListPolicies has succeeded, the handler calls Close on the
\* iterator exactly once before it returns, on every exit path.
C22_IteratorClosed ==
  \A r \in Reqs :
    hpc[r] = "done" /\ Ev("ListPolicies", ErrOK) \in Range(trace[r]) =>
      /\ Cardinality(At(r, "iterator.Close")) = 1
      /\ ~listing[r].open

\* A turn of the loop of list request r for a name the pattern matches.
MatchedTurn(r) ==
  /\ hpc[r] = "loop"
  /\ trace'[r] # trace[r]
  /\ listing[r].values # <<>>
  /\ Covers(req[r].target, Head(listing[r].values))

\* C23, as a step: when the loop comes to a name whose policy is gone, it
\* emits one error line and the request ends; a line emitted for a name
\* whose policy is there is the entry line with that policy's metadata.
C23_Step ==
  \A r \in Reqs :
    MatchedTurn(r) =>
      LET name == Head(listing[r].values)
          body == resp[r].body
      IN IF name \notin DOMAIN policies
         THEN /\ Len(resp'[r].body) = Len(body) + 1
              /\ SubSeq(resp'[r].body, 1, Len(body)) = body
              /\ IsErrorLine(resp'[r].body[Len(body) + 1])
              /\ hpc'[r] = "done"
         ELSE resp'[r].body \in {body, Append(body, EntryLine(name))}

\* C23, as a state: an error line is the last line of a response that has
\* ended, and no entry line has empty metadata.
C23_Lines ==
  \A r \in Reqs :
    req[r].route = "list" =>
      \A i \in DOMAIN resp[r].body :
        LET l == resp[r].body[i]
        IN IF IsErrorLine(l)
           THEN i = Len(resp[r].body) /\ hpc[r] = "done"
           ELSE l.created_at \in Times /\ l.created_by # ""

\* C23: entry lines of a list that runs while policies are deleted.
C23_ListUnderDeletion == [][C23_Step]_vars /\ []C23_Lines

\* A list has emitted the line of one policy and then ended with the error
\* line for a policy deleted after ListPolicies.
C23_Witness ==
  \E r \in Reqs :
    /\ hpc[r] = "done"
    /\ req[r].route = "list"
    /\ Len(resp[r].body) = 2
    /\ IsEntryLine(resp[r].body[1])
    /\ resp[r].body[2] = [error |-> ErrPolicyNotFound.msg]

\* ================================================= the store's claims, concluded
\* Goroutine t holds the iterator that its List returned.
HoldsIterator(t) == pc[t] = "done" /\ op[t].f = "List" /\ pc'[t] = "done"

\* C24, as a step: a call of Next yields the first name left of those List
\* collected, whether or not the store still has it, and no other step, of
\* a Create or Delete in particular, changes what is left to yield.
C24_Step ==
  \A t \in Threads :
    HoldsIterator(t) =>
      /\ store' # store => iter'[t] = iter[t] /\ yield'[t] = yield[t]
      /\ IF <<iter'[t], nextRet'[t]>> # <<iter[t], nextRet[t]>>
         THEN /\ store' = store
              /\ iter[t].values # <<>> =>
                   /\ nextRet'[t] = "true"
                   /\ Name(iter'[t]) = Head(iter[t].values)
                   /\ iter'[t].values = Tail(iter[t].values)
                   /\ yield'[t] = Append(yield[t], Head(iter[t].values))
              /\ iter[t].values = <<>> => nextRet'[t] = "false" /\ yield'[t] = yield[t]
         ELSE yield'[t] = yield[t]

\* C24: the iterator of the store is a snapshot.
C24_Snapshot == [][C24_Step]_vars

\* An iterator has yielded a name that was deleted after List, and is at
\* its end without the name that was created after List.
C24_Witness ==
  \E t \in Threads :
    /\ pc[t] = "done" /\ op[t].f = "List"
    /\ nextRet[t] = "false"
    /\ \E n \in Range(yield[t]) : ~MapHas(store, n)
    /\ \E n \in DOMAIN store.m : n \notin Range(yield[t])

\* Goroutine t holds the store's lock, for writing or for reading.
Holds(t) == lock.w = t \/ t \in lock.r

\* A goroutine outside a method, or one that has not got the lock yet,
\* holds no lock: every return has released it.
C25_LockReleased ==
  \A t \in Threads : pc[t] \in {"idle", "done", "lock", "status"} => ~Holds(t)

\* A goroutine that waits for the lock and cannot get it waits for a
\* goroutine that holds the lock and can take a step.
C25_NoDeadlock ==
  \A t \in Threads :
    pc[t] = "lock" /\ ~ENABLED (CreateLock(t) \/ DeleteLock(t) \/ GetRLock(t) \/ ListRLock(t))
    => \E u \in Threads \ {t} :
         /\ Holds(u)
         /\ ENABLED (\/ Return(u) \/ CreateCheck(u) \/ CreateAssign(u)
                     \/ DeleteEntry(u) \/ GetLookup(u) \/ ListRange(u))

\* C25: every method releases its lock on every return path, no deadlock is
\* reachable, and under fair scheduling every call returns.
C25_EveryCallReturns ==
  /\ []C25_LockReleased
  /\ []C25_NoDeadlock
  /\ \A t \in Threads : ~Outside(pc[t]) ~> pc[t] = "done"

\* A Create has returned ErrKeyExists and a Get ErrKeyNotFound, and the lock
\* is free.
C25_Witness ==
  \E t \in Threads, u \in Threads :
    /\ pc[t] = "done" /\ op[t].f = "Create" /\ ret[t].err = ErrKeyExists
    /\ pc[u] = "done" /\ op[u].f = "Get" /\ ret[u].err = ErrKeyNotFound
    /\ lock = ZeroLock

\* The entry of name n in the store s: whether there is one, and its key.
EntryOf(s, n) == IF n \in DOMAIN s.m THEN <<TRUE, s.m[n]>> ELSE <<FALSE, ZeroKey>>

\* C26, as a step: a step of a Create or Delete of name n leaves the entry
\* of every other name as it is, a step of any other call and a call of Next
\* leave the store as it is, and every change of the store is a step of a
\* Create or Delete.
C26_Step ==
  /\ \A t \in Threads :
       /\ Steps(t) /\ op[t].f \in {"Create", "Delete"} =>
            \A n \in Names \ {op[t].name} : EntryOf(store', n) = EntryOf(store, n)
       /\ Steps(t) /\ op[t].f \notin {"Create", "Delete"} => store' = store
       /\ iter'[t] # iter[t] \/ nextRet'[t] # nextRet[t] => store' = store
  /\ store' # store =>
       \E t \in Threads : Steps(t) /\ ~Outside(pc[t]) /\ op[t].f \in {"Create", "Delete"}

\* A Create that is about to return ErrKeyExists has left the store as it
\* was when it took the lock.
C26_FailedCreate ==
  \A t \in Threads :
    AtUnlock(t, "Create") /\ ret[t].err = ErrKeyExists => store = atLock[t]

\* C26: the Store's methods touch only the named entry.
C26_Frame == []C26_FailedCreate /\ [][C26_Step]_vars

\* A Delete has removed the entry of its name and the entry of another name
\* is there as before.
C26_Witness ==
  \E t \in Threads :
    /\ AtUnlock(t, "Delete")
    /\ MapHas(atLock[t], op[t].name) /\ ~MapHas(store, op[t].name)
    /\ \E n \in Names \ {op[t].name} :
         MapHas(store, n) /\ EntryOf(store, n) = EntryOf(atLock[t], n)

====
